---- MODULE Spec2Model ----
(***************************************************************************)
(* Model of the two stream-proxy handlers of ipl_data_api:                 *)
(*   worker.js  - the edge-worker `fetch(request)` handler                 *)
(*   server.js  - the express `GET /stream_proxy` handler                  *)
(*                                                                         *)
(* A handler invocation runs without interruption up to its only `await`   *)
(* (the outbound fetch); the runtime then resumes it when the fetch        *)
(* resolves or rejects, and relays the upstream body after the handler     *)
(* has produced the response head.  Several invocations are in flight at   *)
(* once.                                                                   *)
(*                                                                         *)
(* Strings are sequences of tokens (a token is an uninterpreted piece of   *)
(* text), so that concatenation is \o and URL parsing looks at the pieces. *)
(* A JavaScript value that may be null is <<>> (null) or <<s>> (string s). *)
(***************************************************************************)
EXTENDS Integers, Sequences, FiniteSets, TLC

\* Number of handler invocations that may be in flight together.
NumReqs == 2

Reqs == 1..NumReqs

---------------------------------------------------------------------------
\* State, per invocation r:
\*   req[r]        the inbound request (NoReq before it arrives)
\*   pc[r]         "idle", "fetching" (suspended at await fetch), "streaming"
\*                 (response head sent, body being relayed), "done" (response
\*                 complete), "aborted" (relay failed), "threw" (an exception
\*                 left the handler)
\*   out[r]        the outbound request issued, if any
\*   up[r]         how the outbound call ended, if it has
\*   resp[r]       the response the handler produced, if any
\*   delivered[r]  the part of the response body the client has received
\*   err[r]        the message of the exception that left the handler, if any
\*   trace[r]      the operations performed, in order

VARIABLES req, pc, out, up, resp, delivered, err, trace

vars == <<req, pc, out, up, resp, delivered, err, trace>>

---------------------------------------------------------------------------
\* JavaScript values

Null == <<>>

Str(s) == <<s>>

\* `!v` is true of null and of the empty string
Truthy(v) == v # Null /\ v[1] # <<>>

\* String(v): null becomes the text "null"
JSString(v) == IF v = Null THEN <<"null">> ELSE v[1]

EmptyHeaders == [h \in {} |-> <<>>]

\* headers.get(name): null when the header is absent
HeaderGet(headers, name) ==
    IF name \in DOMAIN headers THEN Str(headers[name]) ELSE Null

---------------------------------------------------------------------------
\* new URL(s): an absolute URL is  scheme "//" host ["/" ...]  for http(s),
\* or an opaque  "data:" ...; everything else throws TypeError.

SpecialSchemes == {"http:", "https:"}

IsSpecialURL(s) ==
    /\ Len(s) >= 3
    /\ s[1] \in SpecialSchemes
    /\ s[2] = "//"
    /\ s[3] \notin {"/", "//"}
    /\ (Len(s) > 3 => s[4] = "/")

IsOpaqueURL(s) == Len(s) >= 1 /\ s[1] = "data:"

CanParse(s) == IsSpecialURL(s) \/ IsOpaqueURL(s)

\* URL.origin: scheme://host for http(s), the text "null" for opaque URLs
URLOrigin(s) == IF IsSpecialURL(s) THEN SubSeq(s, 1, 3) ELSE <<"null">>

InvalidURL == <<"Invalid URL">>

---------------------------------------------------------------------------
\* Inbound requests

TargetHttp == <<"https:", "//", "cdn.example", "/", "live.m3u8">>
TargetData == <<"data:", "text/plain,x">>
TargetBad  == <<"not a url">>

UrlParams == {Null, Str(<<>>), Str(TargetBad), Str(TargetHttp), Str(TargetData)}

RefGood == <<"https:", "//", "site.example", "/", "watch">>
RefBad  == <<"nope">>

RefParams == {Null, Str(<<>>), Str(RefBad), Str(RefGood)}

RangeHeaders == {Null, Str(<<"bytes=0-">>)}

WorkerInputs ==
    [variant : {"worker"}, url : UrlParams, ref : RefParams, range : RangeHeaders]

\* server.js reads nothing but req.query.url
ServerInputs ==
    [variant : {"server"}, url : UrlParams, ref : {Null}, range : RangeHeaders]

NoReq == [variant |-> "none", url |-> Null, ref |-> Null, range |-> Null]

---------------------------------------------------------------------------
\* What the upstream may answer, and how the outbound call may fail

Upstreams ==
    { [ok |-> TRUE, status |-> 200,
       headers |-> ("content-type" :> <<"video/mp2t">>),
       body |-> <<"seg0", "seg1">>, message |-> <<>>],
      [ok |-> TRUE, status |-> 404,
       headers |-> EmptyHeaders,
       body |-> <<"not found">>, message |-> <<>>] }

FetchErrors == { <<"fetch failed">> }

Rejected(m) ==
    [ok |-> FALSE, status |-> 0, headers |-> EmptyHeaders, body |-> <<>>,
     message |-> m]

---------------------------------------------------------------------------
\* The responses and outbound headers the handlers build

Response(status, headers, body) ==
    [status |-> status, headers |-> headers, body |-> body]

WorkerMissing == Response(400, EmptyHeaders, <<"Missing ?url=">>)

ServerMissing == Response(400, EmptyHeaders, <<"Missing url param">>)

\* a catch block that drops err.message
ErrorResponseNoMessage(m) == Response(500, EmptyHeaders, <<"Proxy error: ">>)

\* catch (err): "Proxy error: " + err.message, status 500
ErrorResponse(m) == Response(500, EmptyHeaders, <<"Proxy error: ">> \o m)

\* a line 5 that ignores the ref parameter
WorkerRefTargetOnly(q) == URLOrigin(JSString(q.url)) \o <<"/">>

\* a line 5 that falls back to the target of a request proxied before (a
\* module-level "previous page") ahead of the target's own origin
WorkerRefShared(q) ==
    IF Truthy(q.ref) THEN q.ref[1]
    ELSE IF \E r \in Reqs : out[r] # Null
    THEN out[CHOOSE r \in Reqs : out[r] # Null][1].url
    ELSE URLOrigin(JSString(q.url)) \o <<"/">>

\* worker.js line 5, evaluated when it does not throw
WorkerRef(q) ==
    IF Truthy(q.ref) THEN q.ref[1] ELSE URLOrigin(JSString(q.url)) \o <<"/">>

\* worker.js line 5 throws when new URL(target) is reached and cannot parse
WorkerRefThrows(q) == ~Truthy(q.ref) /\ ~CanParse(JSString(q.url))

WorkerUserAgent == <<"Mozilla/5.0 (compatible; StreamProxy/1.0)">>

\* headers that leave Range out when the inbound request has none
WorkerHeadersNoEmptyRange(q) ==
    IF Truthy(q.range)
    THEN ("User-Agent" :> WorkerUserAgent)
         @@ ("Referer" :> WorkerRef(q))
         @@ ("Origin" :> URLOrigin(WorkerRef(q)))
         @@ ("Range" :> q.range[1])
    ELSE ("User-Agent" :> WorkerUserAgent)
         @@ ("Referer" :> WorkerRef(q))
         @@ ("Origin" :> URLOrigin(WorkerRef(q)))

WorkerHeaders(q) ==
    ("User-Agent" :> WorkerUserAgent)
    @@ ("Referer" :> WorkerRef(q))
    @@ ("Origin" :> URLOrigin(WorkerRef(q)))
    @@ ("Range" :> (IF Truthy(q.range) THEN q.range[1] ELSE <<>>))

ServerUserAgent == <<"Mozilla/5.0">>

\* headers without the Referer
ServerHeadersNoReferer ==
    ("User-Agent" :> ServerUserAgent)
    @@ ("Origin" :> <<"https:", "//", "fancode.com", "/">>)

ServerHeaders ==
    ("User-Agent" :> ServerUserAgent)
    @@ ("Referer" :> <<"https:", "//", "fancode.com", "/">>)
    @@ ("Origin" :> <<"https:", "//", "fancode.com", "/">>)

\* a relay that answers 200 whatever the upstream status
WorkerRelayOk(u) == Response(200, u.headers, u.body)

\* new Response(upstream.body, {status, headers})
\* (the constructor accepts every status a resolved fetch can carry, 200..599)
WorkerRelay(u) == Response(u.status, u.headers, u.body)

\* a relay that mirrors the upstream status (res.status(response.status))
ServerRelayStatus(u) ==
    Response(u.status,
             "Content-Type" :> JSString(HeaderGet(u.headers, "content-type")),
             u.body)

\* res.set("Content-Type", ...); response.body.pipe(res): the status is never
\* set, so it is express's default 200
ServerRelay(u) ==
    Response(200,
             "Content-Type" :> JSString(HeaderGet(u.headers, "content-type")),
             u.body)

---------------------------------------------------------------------------
\* One run of a handler up to its first suspension.  trace lists, in order,
\* the operations the handler performed:
\*   "parseTarget"  new URL(target)
\*   "checkFail"    the !target test found the parameter missing
\*   "checkPass"    the !target test passed
\*   "parseRef"     new URL(ref)
\*   "fetch"        fetch(target, ...) was called

Outcome(pc_, out_, resp_, err_, trace_) ==
    [pc |-> pc_, out |-> out_, resp |-> resp_, err |-> err_, trace |-> trace_]

WorkerHandle(q) ==
    LET t0 == IF Truthy(q.ref) THEN <<>> ELSE <<"parseTarget">> IN
    IF WorkerRefThrows(q)
    THEN Outcome("threw", Null, Null, Str(InvalidURL), t0)
    ELSE IF ~Truthy(q.url)
    THEN Outcome("done", Null, Str(WorkerMissing), Null, t0 \o <<"checkFail">>)
    ELSE IF ~CanParse(WorkerRef(q))
    THEN Outcome("done", Null, Str(ErrorResponse(InvalidURL)), Null,
                 t0 \o <<"checkPass", "parseRef">>)
    ELSE IF ~CanParse(q.url[1])
    THEN Outcome("done", Null, Str(ErrorResponse(InvalidURL)), Null,
                 t0 \o <<"checkPass", "parseRef", "fetch">>)
    ELSE Outcome("fetching",
                 Str([url |-> q.url[1], headers |-> WorkerHeaders(q)]),
                 Null, Null, t0 \o <<"checkPass", "parseRef", "fetch">>)

ServerHandle(q) ==
    IF ~Truthy(q.url)
    THEN Outcome("done", Null, Str(ServerMissing), Null, <<"checkFail">>)
    ELSE IF ~CanParse(q.url[1])
    THEN Outcome("done", Null, Str(ErrorResponse(InvalidURL)), Null,
                 <<"checkPass", "fetch">>)
    ELSE Outcome("fetching",
                 Str([url |-> q.url[1], headers |-> ServerHeaders]),
                 Null, Null, <<"checkPass", "fetch">>)

---------------------------------------------------------------------------
\* Initial state and the steps of the handlers

Init ==
    /\ req = [r \in Reqs |-> NoReq]
    /\ pc = [r \in Reqs |-> "idle"]
    /\ out = [r \in Reqs |-> Null]
    /\ up = [r \in Reqs |-> Null]
    /\ resp = [r \in Reqs |-> Null]
    /\ delivered = [r \in Reqs |-> <<>>]
    /\ err = [r \in Reqs |-> Null]
    /\ trace = [r \in Reqs |-> <<>>]

Begin(r, q, o) ==
    /\ pc[r] = "idle"
    /\ req' = [req EXCEPT ![r] = q]
    /\ pc' = [pc EXCEPT ![r] = o.pc]
    /\ out' = [out EXCEPT ![r] = o.out]
    /\ resp' = [resp EXCEPT ![r] = o.resp]
    /\ delivered' = [delivered EXCEPT
                        ![r] = IF o.resp = Null THEN <<>> ELSE o.resp[1].body]
    /\ err' = [err EXCEPT ![r] = o.err]
    /\ trace' = [trace EXCEPT ![r] = o.trace]
    /\ UNCHANGED up

\* worker.js: a request arrives and the handler runs to its await or its end
WorkerStart(r) == \E q \in WorkerInputs : Begin(r, q, WorkerHandle(q))

\* server.js: likewise
ServerStart(r) == \E q \in ServerInputs : Begin(r, q, ServerHandle(q))

\* await fetch(...) rejects: the catch block answers
FetchReject(r) ==
    /\ pc[r] = "fetching"
    /\ \E m \in FetchErrors :
        /\ up' = [up EXCEPT ![r] = Str(Rejected(m))]
        /\ resp' = [resp EXCEPT ![r] = Str(ErrorResponse(m))]
        /\ delivered' = [delivered EXCEPT ![r] = ErrorResponse(m).body]
    /\ pc' = [pc EXCEPT ![r] = "done"]
    /\ UNCHANGED <<req, out, err, trace>>

\* await fetch(...) resolves in worker.js: the response head is returned
WorkerFetchResolve(r) ==
    /\ pc[r] = "fetching"
    /\ req[r].variant = "worker"
    /\ \E u \in Upstreams :
        /\ up' = [up EXCEPT ![r] = Str(u)]
        /\ resp' = [resp EXCEPT ![r] = Str(WorkerRelay(u))]
    /\ pc' = [pc EXCEPT ![r] = "streaming"]
    /\ UNCHANGED <<req, out, delivered, err, trace>>

\* await fetch(...) resolves in server.js: header set, body piped
ServerFetchResolve(r) ==
    /\ pc[r] = "fetching"
    /\ req[r].variant = "server"
    /\ \E u \in Upstreams :
        /\ up' = [up EXCEPT ![r] = Str(u)]
        /\ resp' = [resp EXCEPT ![r] = Str(ServerRelay(u))]
    /\ pc' = [pc EXCEPT ![r] = "streaming"]
    /\ UNCHANGED <<req, out, delivered, err, trace>>

\* the relay of the body reaches its end
StreamEnd(r) ==
    /\ pc[r] = "streaming"
    /\ delivered' = [delivered EXCEPT ![r] = resp[r][1].body]
    /\ pc' = [pc EXCEPT ![r] = "done"]
    /\ UNCHANGED <<req, out, up, resp, err, trace>>

\* the relay of the body fails part-way: the handler has already returned
\* (worker.js) or left its try block (server.js), so no catch runs
StreamFail(r) ==
    /\ pc[r] = "streaming"
    /\ \E n \in 0..(Len(resp[r][1].body) - 1) :
        delivered' = [delivered EXCEPT ![r] = SubSeq(resp[r][1].body, 1, n)]
    /\ pc' = [pc EXCEPT ![r] = "aborted"]
    /\ UNCHANGED <<req, out, up, resp, err, trace>>

Next ==
    \E r \in Reqs :
        \/ WorkerStart(r)
        \/ ServerStart(r)
        \/ FetchReject(r)
        \/ WorkerFetchResolve(r)
        \/ ServerFetchResolve(r)
        \/ StreamEnd(r)
        \/ StreamFail(r)

Spec == Init /\ [][Next]_vars

---------------------------------------------------------------------------
\* Properties

Started(r) == pc[r] # "idle"

IsWorker(r) == req[r].variant = "worker"

IsServer(r) == req[r].variant = "server"

FetchRejected(r) == up[r] # Null /\ ~up[r][1].ok

FetchResolved(r) == up[r] # Null /\ up[r][1].ok

IsPrefix(s, t) == Len(s) <= Len(t) /\ s = SubSeq(t, 1, Len(s))

ProxyErrorBody(m) == <<"Proxy error: ">> \o m

\* C1: a request whose url parameter is absent or empty is answered 400 with
\* the variant's fixed body, in both variants and whatever ref is; the
\* handler never throws.
C1_MissingTargetAnswered400 ==
    \A r \in Reqs :
        (Started(r) /\ ~Truthy(req[r].url)) =>
            /\ pc[r] = "done"
            /\ err[r] = Null
            /\ resp[r] = Str([status |-> 400, headers |-> EmptyHeaders,
                              body |-> IF IsWorker(r)
                                       THEN <<"Missing ?url=">>
                                       ELSE <<"Missing url param">>])

\* C2: when the outbound fetch rejects with message m, the response is 500
\* with body "Proxy error: " followed by m, complete, and carries nothing of
\* an upstream response.
C2_FetchFailureAnswered500 ==
    \A r \in Reqs :
        FetchRejected(r) =>
            /\ pc[r] = "done"
            /\ err[r] = Null
            /\ resp[r] = Str([status |-> 500, headers |-> EmptyHeaders,
                              body |-> ProxyErrorBody(up[r][1].message)])
            /\ delivered[r] = ProxyErrorBody(up[r][1].message)

C2_Witness ==
    \E r \in Reqs : \E s \in Reqs :
        /\ IsWorker(r) /\ FetchRejected(r)
        /\ IsServer(s) /\ FetchRejected(s)

\* C3: in worker.js, when the outbound fetch resolves with status S, headers
\* H and body B, the response has status S, headers H and body B; the client
\* receives a prefix of B while it is relayed and all of B once the relay
\* has ended.
C3_WorkerMirrorsUpstream ==
    \A r \in Reqs :
        (IsWorker(r) /\ FetchResolved(r)) =>
            /\ resp[r] = Str([status |-> up[r][1].status,
                              headers |-> up[r][1].headers,
                              body |-> up[r][1].body])
            /\ IsPrefix(delivered[r], up[r][1].body)
            /\ (pc[r] = "done" => delivered[r] = up[r][1].body)

C3_Witness ==
    \E r \in Reqs :
        /\ IsWorker(r) /\ FetchResolved(r) /\ pc[r] = "done"
        /\ up[r][1].status = 404
        /\ resp[r][1].status = 404

\* C4: in worker.js, every outbound request has a Range header: the inbound
\* Range verbatim when that is present and non-empty, the empty string
\* otherwise.
C4_WorkerRangeForwarded ==
    \A r \in Reqs :
        (IsWorker(r) /\ out[r] # Null) =>
            /\ "Range" \in DOMAIN out[r][1].headers
            /\ out[r][1].headers["Range"] =
                   IF req[r].range # Null /\ req[r].range[1] # <<>>
                   THEN req[r].range[1]
                   ELSE <<>>

C4_Witness ==
    \E r \in Reqs : \E s \in Reqs :
        /\ IsWorker(r) /\ out[r] # Null /\ req[r].range = Null
        /\ IsWorker(s) /\ out[s] # Null /\ req[s].range # Null

\* C5: every outbound request, of either variant, has the variant's fixed
\* non-empty User-Agent, a Referer and an Origin header.
C5_OutboundIdentityHeaders ==
    \A r \in Reqs :
        out[r] # Null =>
            /\ {"User-Agent", "Referer", "Origin"} \subseteq DOMAIN out[r][1].headers
            /\ out[r][1].headers["User-Agent"] # <<>>
            /\ out[r][1].headers["User-Agent"] =
                   IF IsWorker(r)
                   THEN <<"Mozilla/5.0 (compatible; StreamProxy/1.0)">>
                   ELSE <<"Mozilla/5.0">>

C5_Witness ==
    \E r \in Reqs : \E s \in Reqs :
        /\ IsWorker(r) /\ out[r] # Null /\ req[r].range # Null
        /\ IsServer(s) /\ out[s] # Null /\ req[s].range # Null

\* C6: in worker.js, the outbound Referer is the ref parameter when that is
\* supplied and non-empty, and the target's origin followed by "/"
\* otherwise; the outbound Origin is the origin of that Referer (the target's
\* origin when ref is not supplied).
C6_WorkerRefererAndOrigin ==
    \A r \in Reqs :
        (IsWorker(r) /\ out[r] # Null) =>
            LET h == out[r][1].headers
                supplied == req[r].ref # Null /\ req[r].ref[1] # <<>>
            IN /\ supplied => h["Referer"] = req[r].ref[1]
               /\ ~supplied => /\ h["Referer"] = URLOrigin(req[r].url[1]) \o <<"/">>
                               /\ h["Origin"] = URLOrigin(req[r].url[1])
               /\ h["Origin"] = URLOrigin(h["Referer"])

C6_Witness ==
    \E r \in Reqs : \E s \in Reqs :
        /\ IsWorker(r) /\ out[r] # Null /\ req[r].ref = Str(RefGood)
        /\ IsWorker(s) /\ out[s] # Null /\ req[s].ref = Null

\* C7: a request whose url parameter is present but not a valid URL is
\* answered 500 "Proxy error: <message>" in both variants and whatever ref
\* is, and so is a worker request with a target and a malformed ref; the
\* exception never leaves the handler.
C7_MalformedTargetAnswered500 ==
    \A r \in Reqs :
        (/\ Started(r)
         /\ Truthy(req[r].url)
         /\ \/ ~CanParse(req[r].url[1])
            \/ IsWorker(r) /\ Truthy(req[r].ref) /\ ~CanParse(req[r].ref[1])) =>
            /\ pc[r] = "done"
            /\ err[r] = Null
            /\ resp[r] # Null
            /\ resp[r][1].status = 500
            /\ IsPrefix(<<"Proxy error: ">>, resp[r][1].body)

\* C8 as stated: a failure while the body is relayed is answered 500
\* "Proxy error: <message>"; no failed relay leaves another status committed.
C8_StreamFailureAnswered500 ==
    \A r \in Reqs :
        pc[r] = "aborted" =>
            /\ resp[r][1].status = 500
            /\ IsPrefix(<<"Proxy error: ">>, resp[r][1].body)

\* C8 as amended: a failure while the body is relayed happens after the
\* response head is committed and changes nothing of it: the status stays the
\* upstream's status (worker.js) or 200 (server.js), no "Proxy error: " body
\* is produced and the client is left with a proper prefix of the upstream
\* body; no exception leaves the handler.
C8_StreamFailureKeepsCommittedStatus ==
    \A r \in Reqs :
        pc[r] = "aborted" =>
            /\ FetchResolved(r)
            /\ err[r] = Null
            /\ resp[r][1].status = IF IsWorker(r) THEN up[r][1].status ELSE 200
            /\ ~IsPrefix(<<"Proxy error: ">>, resp[r][1].body)
            /\ IsPrefix(delivered[r], up[r][1].body)
            /\ delivered[r] # up[r][1].body

C8_Witness ==
    \E r \in Reqs : \E s \in Reqs :
        /\ IsWorker(r) /\ pc[r] = "aborted" /\ resp[r][1].status = 404
        /\ IsServer(s) /\ pc[s] = "aborted" /\ up[s][1].status = 404

CountOf(seq, e) == Cardinality({i \in DOMAIN seq : seq[i] = e})

\* C10: an outbound fetch is issued at most once per request and only when
\* the url parameter is present and non-empty; a request answered 400 issues
\* none; and new URL(target) and fetch happen only after the missing-parameter
\* check has passed.
C10_ValidationPrecedesTargetWork ==
    \A r \in Reqs :
        /\ CountOf(trace[r], "fetch") <= 1
        /\ out[r] # Null => (Truthy(req[r].url) /\ CountOf(trace[r], "fetch") = 1)
        /\ (resp[r] # Null /\ resp[r][1].status = 400) =>
               (out[r] = Null /\ CountOf(trace[r], "fetch") = 0)
        /\ \A i \in DOMAIN trace[r] :
               trace[r][i] \in {"parseTarget", "fetch"} =>
                   \E j \in 1..(i - 1) : trace[r][j] = "checkPass"

====
